---- MODULE Spec2Model ----
(***************************************************************************)
(* Model of skcriteria's numeric core: the five normalization operators of *)
(* skcriteria/norm.py (sum, max, vector, push_negatives, add1to0) over     *)
(* numpy arrays, and the validators criteriarr and is_mtx of the core      *)
(* module exercised by skcriteria/tests/test_core.py.                      *)
(*                                                                         *)
(* An ndarray is a record [shape, at]: shape is the tuple of dimensions    *)
(* and at maps every index tuple to the element.  Reductions along an axis *)
(* and numpy's broadcasting of binary operations are modelled as numpy     *)
(* performs them, so that the shape of every intermediate value decides    *)
(* which denominator or increment meets which element.                     *)
(*                                                                         *)
(* Arithmetic is exact: a float holding an integer is that integer, a      *)
(* quotient is kept as a fraction n/d (or n/sqrt(d) for the Euclidean      *)
(* norm), and a division by zero yields the IEEE special values.  IEEE     *)
(* rounding of quotients is not modelled.                                  *)
(***************************************************************************)
EXTENDS Integers, Sequences, FiniteSets, TLC

VARIABLES pc, arr, axis, op, result, heap, ret, writes

vars == <<pc, arr, axis, op, result, heap, ret, writes>>

(***************************************************************************)
(* Bounds of the model                                                     *)
(***************************************************************************)
MaxRows == 3
MaxCols == 3
MaxCells == 6
MaxNeg == 2
MaxPos == 1
MaxCalls == 2
MaxWrites == 1
MaxAliasCells == 2
MaxOuter == 2
MaxInner == 2
MaxElem == 2

Vals == (0 - MaxNeg)..MaxPos

Axes == {"None", "0", "1"}

AxisNum(ax) == IF ax = "0" THEN 0 ELSE 1

(***************************************************************************)
(* ndarrays                                                                *)
(***************************************************************************)
Indices(shape) ==
    IF Len(shape) = 0 THEN {<<>>}
    ELSE IF Len(shape) = 1 THEN {<<i>> : i \in 1..shape[1]}
    ELSE {<<i, j>> : i \in 1..shape[1], j \in 1..shape[2]}

Scalar(v) == [shape |-> <<>>, at |-> [t \in Indices(<<>>) |-> v]]

Raise(e) == [raise |-> e]

IsRaise(r) == "raise" \in DOMAIN r

Max2(a, b) == IF a >= b THEN a ELSE b

(***************************************************************************)
(* Floating point quotients                                                *)
(***************************************************************************)
NaN == [k |-> "nan", n |-> 0, d |-> 1, sq |-> FALSE]

PosInf == [k |-> "inf", n |-> 0, d |-> 1, sq |-> FALSE]

NegInf == [k |-> "-inf", n |-> 0, d |-> 1, sq |-> FALSE]

\* n/d with d > 0, or n/sqrt(d) when sq
Fin(n, d, sq) == [k |-> "fin", n |-> n, d |-> d, sq |-> sq]

DivZero(x) == IF x = 0 THEN NaN ELSE IF x > 0 THEN PosInf ELSE NegInf

\* x / s for floats x, s holding integers
TrueDivide(x, s) ==
    IF s = 0 THEN DivZero(x)
    ELSE IF s < 0 THEN Fin(0 - x, 0 - s, FALSE)
    ELSE Fin(x, s, FALSE)

\* x / sqrt(v) for a float x holding an integer and a norm sqrt(v)
DivideByNorm(x, v) ==
    IF v = 0 THEN DivZero(x) ELSE Fin(x, v, TRUE)

Elementwise(f, x, y) ==
    CASE f = "/" -> TrueDivide(x, y)
      [] f = "/norm" -> DivideByNorm(x, y)
      [] f = "-" -> x - y
      [] f = "+" -> x + y

(***************************************************************************)
(* Broadcasting of a binary elementwise operation                          *)
(***************************************************************************)
Pad(s, r) == [k \in 1..r |-> IF k <= r - Len(s) THEN 1 ELSE s[k - (r - Len(s))]]

Broadcastable(s1, s2) ==
    LET r == Max2(Len(s1), Len(s2))
        p1 == Pad(s1, r)
        p2 == Pad(s2, r)
    IN  \A k \in 1..r : p1[k] = p2[k] \/ p1[k] = 1 \/ p2[k] = 1

BroadcastShape(s1, s2) ==
    LET r == Max2(Len(s1), Len(s2))
        p1 == Pad(s1, r)
        p2 == Pad(s2, r)
    IN  [k \in 1..r |-> IF p1[k] = 1 THEN p2[k] ELSE p1[k]]

Get(a, t) ==
    LET n == Len(a.shape)
        off == Len(t) - n
    IN  a.at[[k \in 1..n |-> IF a.shape[k] = 1 THEN 1 ELSE t[k + off]]]

\* a (f) b, elementwise, for f one of "/", "/norm", "-", "+"
Broadcast(f, a, b) ==
    IF IsRaise(a) THEN a
    ELSE IF IsRaise(b) THEN b
    ELSE IF ~Broadcastable(a.shape, b.shape) THEN Raise("ValueError")
    ELSE LET shape == BroadcastShape(a.shape, b.shape)
         IN  [shape |-> shape,
              at |-> [t \in Indices(shape) |->
                         Elementwise(f, Get(a, t), Get(b, t))]]

(***************************************************************************)
(* Reductions along an axis                                                *)
(***************************************************************************)
AxisValid(a, ax) == ax = "None" \/ AxisNum(ax) < Len(a.shape)

Reduced(ax, k) == ax = "None" \/ k = AxisNum(ax) + 1

KeepShape(shape, ax) ==
    [k \in 1..Len(shape) |-> IF Reduced(ax, k) THEN 1 ELSE shape[k]]

DropShape(shape, ax) ==
    IF ax = "None" THEN <<>>
    ELSE [k \in 1..(Len(shape) - 1) |->
             IF k < AxisNum(ax) + 1 THEN shape[k] ELSE shape[k + 1]]

\* the index tuples of a that are reduced onto position t (t in keepdims form)
Slice(a, ax, t) ==
    {u \in Indices(a.shape) :
        \A k \in 1..Len(a.shape) : Reduced(ax, k) \/ u[k] = t[k]}

\* position t of the reduced array without keepdims, in keepdims form
Expand(a, ax, t) ==
    [k \in 1..Len(a.shape) |->
        IF Reduced(ax, k) THEN 1
        ELSE IF k < AxisNum(ax) + 1 THEN t[k] ELSE t[k - 1]]

RECURSIVE SumOver(_, _)
SumOver(a, S) ==
    IF S = {} THEN 0
    ELSE LET u == CHOOSE u \in S : TRUE
         IN  a.at[u] + SumOver(a, S \ {u})

RECURSIVE SumSqOver(_, _)
SumSqOver(a, S) ==
    IF S = {} THEN 0
    ELSE LET u == CHOOSE u \in S : TRUE
         IN  a.at[u] * a.at[u] + SumSqOver(a, S \ {u})

MaxOver(a, S) == CHOOSE v \in {a.at[u] : u \in S} : \A u \in S : a.at[u] <= v

MinOver(a, S) == CHOOSE v \in {a.at[u] : u \in S} : \A u \in S : v <= a.at[u]

AnyZeroOver(a, S) == \E u \in S : a.at[u] = 0

ReduceOver(r, a, S) ==
    CASE r = "sum" -> SumOver(a, S)
      [] r = "max" -> MaxOver(a, S)
      [] r = "min" -> MinOver(a, S)
      [] r = "norm" -> SumSqOver(a, S)
      [] r = "any0" -> AnyZeroOver(a, S)

\* the reduction r of a along ax, the reduced dimensions kept with length 1
\* (keepdims) or dropped
Reduce(r, a, ax, keepdims) ==
    IF ~AxisValid(a, ax) THEN Raise("AxisError")
    ELSE IF keepdims
         THEN LET shape == KeepShape(a.shape, ax)
              IN  [shape |-> shape,
                   at |-> [t \in Indices(shape) |->
                              ReduceOver(r, a, Slice(a, ax, t))]]
         ELSE LET shape == DropShape(a.shape, ax)
              IN  [shape |-> shape,
                   at |-> [t \in Indices(shape) |->
                              ReduceOver(r, a, Slice(a, ax, Expand(a, ax, t)))]]

np_sum(a, ax) == Reduce("sum", a, ax, TRUE)

np_max(a, ax) == Reduce("max", a, ax, TRUE)

np_min(a, ax) == Reduce("min", a, ax, TRUE)

\* each element v of the result stands for the norm sqrt(v)
linalg_norm(a, ax) == Reduce("norm", a, ax, FALSE)

np_any_eq0(a, ax) == Reduce("any0", a, ax, FALSE)

(***************************************************************************)
(* norm.py                                                                 *)
(***************************************************************************)
\* sum with keepdims forgotten in the reduction
sum_without_keepdims(a, ax) ==
    Broadcast("/", a, Reduce("sum", a, ax, FALSE))

sum(a, ax) ==
    LET sumval == np_sum(a, ax)
    IN  Broadcast("/", a, sumval)

\* max dividing by the maximum of the whole array whatever the axis
max_ignoring_axis(a, ax) ==
    Broadcast("/", a, np_max(a, "None"))

max(a, ax) ==
    LET maxval == np_max(a, ax)
    IN  Broadcast("/", a, maxval)

vector(a, ax) ==
    LET frob == linalg_norm(a, ax)
    IN  Broadcast("/norm", a, frob)

NegativeOrZero(m) == IF m < 0 THEN m ELSE 0

\* push_negatives subtracting the minimum of every slice, negative or not
push_negatives_unconditional(a, ax) ==
    Broadcast("-", a, np_min(a, ax))

push_negatives(a, ax) ==
    LET mins == np_min(a, ax)
        delta == IF IsRaise(mins) THEN mins
                 ELSE [shape |-> mins.shape,
                       at |-> [t \in Indices(mins.shape) |->
                                  NegativeOrZero(mins.at[t])]]
    IN  Broadcast("-", a, delta)

Contains0(a) == \E u \in Indices(a.shape) : a.at[u] = 0

add1to0(a, ax) ==
    IF Contains0(a)
    THEN IF Len(a.shape) = 1 \/ ax = "None"
         THEN Broadcast("+", a, Scalar(1))
         ELSE LET zeros == np_any_eq0(a, ax)
                  increment ==
                      IF IsRaise(zeros) THEN zeros
                      ELSE [shape |-> <<zeros.shape[1]>>,
                            at |-> [t \in Indices(<<zeros.shape[1]>>) |->
                                       IF zeros.at[t] THEN 1 ELSE 0]]
              IN  Broadcast("+", a, increment)
    ELSE a

(***************************************************************************)
(* Inputs                                                                  *)
(***************************************************************************)
MatrixShapes ==
    {s \in {<<m, n>> : m \in 1..MaxRows, n \in 1..MaxCols} :
        s[1] * s[2] <= MaxCells}

\* one-dimensional inputs
VectorShapes == {<<n>> : n \in 1..MaxCols}

IsInput(a, shapes) ==
    \E s \in shapes : \E f \in [Indices(s) -> Vals] : a = [shape |-> s, at |-> f]

None == [none |-> TRUE]

Init ==
    /\ pc = "ready"
    /\ IsInput(arr, MatrixShapes \cup VectorShapes)
    /\ axis \in Axes
    /\ op = "none"
    /\ result = None
    /\ heap = <<>>
    /\ ret = 0
    /\ writes = 0

Call(name, r) ==
    /\ pc = "ready"
    /\ pc' = "done"
    /\ op' = name
    /\ result' = r
    /\ UNCHANGED <<arr, axis, heap, ret, writes>>

CallSum == Call("sum", sum(arr, axis))

CallMax == Call("max", max(arr, axis))

CallVector == Call("vector", vector(arr, axis))

CallPushNegatives == Call("push_negatives", push_negatives(arr, axis))

CallAdd1to0 == Call("add1to0", add1to0(arr, axis))

Next ==
    \/ CallSum
    \/ CallMax
    \/ CallVector
    \/ CallPushNegatives
    \/ CallAdd1to0

Spec == Init /\ [][Next]_vars

(***************************************************************************)
(* Object identity: the caller's array and the arrays the operators return *)
(***************************************************************************)
\* heap[1] is the object the caller passes; arr keeps the values it was
\* created with; ret is the object the last call returned (0: none)
AliasShapes == {s \in MatrixShapes : s[1] * s[2] <= MaxAliasCells}

InitAlias ==
    /\ pc = "ready"
    /\ IsInput(arr, AliasShapes)
    /\ \E t \in {"list", "ndarray"} : heap = <<[type |-> t, val |-> arr]>>
    /\ axis = "None"
    /\ op = "none"
    /\ result = None
    /\ ret = 0
    /\ writes = 0

\* np.asarray(x) is x itself when x is an ndarray and a new ndarray otherwise
AsarrayIsSameObject(obj) == obj.type = "ndarray"

\* add1to0 without a 0 in the array ends in `return arr`; every other path of
\* the five operators returns the value of an arithmetic expression
ReturnsItsArray(name, a) == name = "add1to0" /\ ~Contains0(a)

CallOn(name, ax, r) ==
    /\ Len(heap) <= MaxCalls
    /\ op' = name
    /\ axis' = ax
    /\ IF IsRaise(r)
       THEN /\ result' = r
            /\ UNCHANGED <<heap, ret>>
       ELSE /\ result' = None
            /\ IF ReturnsItsArray(name, heap[1].val) /\ AsarrayIsSameObject(heap[1])
               THEN /\ ret' = 1
                    /\ UNCHANGED heap
               ELSE /\ heap' = Append(heap, [type |-> "ndarray", val |-> r])
                    /\ ret' = Len(heap) + 1
    /\ UNCHANGED <<pc, arr, writes>>

AliasSum == \E ax \in Axes : CallOn("sum", ax, sum(heap[1].val, ax))

AliasMax == \E ax \in Axes : CallOn("max", ax, max(heap[1].val, ax))

AliasVector == \E ax \in Axes : CallOn("vector", ax, vector(heap[1].val, ax))

AliasPushNegatives ==
    \E ax \in Axes : CallOn("push_negatives", ax, push_negatives(heap[1].val, ax))

AliasAdd1to0 == \E ax \in Axes : CallOn("add1to0", ax, add1to0(heap[1].val, ax))

\* the caller stores a value into an element of the array it got back
WriteReturned ==
    /\ ret # 0
    /\ writes < MaxWrites
    /\ \E u \in Indices(heap[ret].val.shape), v \in Vals :
          heap' = [heap EXCEPT ![ret].val.at[u] = v]
    /\ writes' = writes + 1
    /\ UNCHANGED <<pc, arr, axis, op, result, ret>>

NextAlias ==
    \/ AliasSum
    \/ AliasMax
    \/ AliasVector
    \/ AliasPushNegatives
    \/ AliasAdd1to0
    \/ WriteReturned

SpecAlias == InitAlias /\ [][NextAlias]_vars

(***************************************************************************)
(* C10: every operator leaves the caller's array unchanged and returns a   *)
(* different object, so the caller's array still holds its original values *)
(* after any calls followed by in-place writes to a returned array.        *)
(***************************************************************************)
CallerArrayKeepsItsValues ==
    /\ heap[1].val = arr
    /\ ret # 1

(***************************************************************************)
(* criteriarr                                                              *)
(***************************************************************************)
MIN == 0 - 1

MAX == 1

CriteriaShapes == {<<n>> : n \in 0..MaxCols}

InitCriteria ==
    /\ pc = "ready"
    /\ IsInput(arr, CriteriaShapes)
    /\ \E t \in {"list", "ndarray"} : heap = <<[type |-> t, val |-> arr]>>
    /\ axis = "None"
    /\ op = "none"
    /\ result = None
    /\ ret = 0
    /\ writes = 0

\* a faulty variant: only the first element is validated
criteriarr_first_only(a) ==
    IF Len(a.shape) = 1 /\ a.shape[1] >= 1 /\ a.at[<<1>>] \notin {MIN, MAX}
    THEN Raise("ValueOutOfDomain")
    ELSE a

\* the validated values, or the error
criteriarr(a) ==
    IF \E u \in Indices(a.shape) : a.at[u] \notin {MIN, MAX}
    THEN Raise("ValueOutOfDomain")
    ELSE a

CallCriteriarr ==
    /\ pc = "ready"
    /\ pc' = "done"
    /\ op' = "criteriarr"
    /\ LET r == criteriarr(heap[1].val)
       IN  IF IsRaise(r)
           THEN /\ result' = r
                /\ UNCHANGED <<heap, ret>>
           ELSE /\ result' = None
                /\ IF AsarrayIsSameObject(heap[1])
                   THEN /\ ret' = 1
                        /\ UNCHANGED heap
                   ELSE /\ heap' = Append(heap, [type |-> "ndarray", val |-> r])
                        /\ ret' = Len(heap) + 1
    /\ UNCHANGED <<arr, axis, writes>>

NextCriteria == CallCriteriarr

SpecCriteria == InitCriteria /\ [][NextCriteria]_vars

(***************************************************************************)
(* C8: criteriarr succeeds iff every element is MIN or MAX, and then       *)
(* returns an array of the same length and values in the same order, the   *)
(* very same object when the input was an ndarray; otherwise it fails with *)
(* ValueOutOfDomain and returns nothing.                                   *)
(***************************************************************************)
CriteriarrAllOrNothing ==
    (pc = "done" /\ op = "criteriarr") =>
        IF \A i \in 1..arr.shape[1] : arr.at[<<i>>] = MIN \/ arr.at[<<i>>] = MAX
        THEN /\ ret # 0
             /\ heap[ret].type = "ndarray"
             /\ heap[ret].val = arr
             /\ heap[1].type = "ndarray" => ret = 1
             /\ heap[1].val = arr
        ELSE /\ result = Raise("ValueOutOfDomain")
             /\ ret = 0
             /\ Len(heap) = 1

\* a rejected sequence whose only foreign value comes last
CriteriarrWitness ==
    /\ pc = "done"
    /\ op = "criteriarr"
    /\ arr.shape = <<3>>
    /\ arr.at[<<1>>] = MIN
    /\ arr.at[<<2>>] = MAX
    /\ arr.at[<<3>>] = 0
    /\ IsRaise(result)

(***************************************************************************)
(* is_mtx                                                                  *)
(***************************************************************************)
\* an item of a nested sequence: a number, or a row of numbers
Number(v) == [row |-> FALSE, v |-> v, items |-> <<>>]

Row(s) == [row |-> TRUE, v |-> 0, items |-> s]

Rows == UNION {[1..k -> 1..MaxElem] : k \in 0..MaxInner}

Items == {Number(v) : v \in 1..MaxElem} \cup {Row(s) : s \in Rows}

\* the shape of np.asarray(x): two-dimensional only when every item is a row
\* and all rows have one length; numbers, or rows of uneven length kept as
\* objects, give a one-dimensional array
asarray_shape(x) ==
    IF /\ Len(x) >= 1
       /\ \A i \in 1..Len(x) : x[i].row /\ Len(x[i].items) = Len(x[1].items)
    THEN <<Len(x), Len(x[1].items)>>
    ELSE <<Len(x)>>

\* a faulty variant: the rows are not compared in length
is_mtx_depth_only(x) ==
    Len(x.nested) >= 1 /\ \A i \in 1..Len(x.nested) : x.nested[i].row

\* the input is two-dimensional: its shape, taken from the array or from the
\* array the nested sequence converts to, has two dimensions
is_mtx(x) ==
    LET shape == IF x.form = "ndarray" THEN x.shape ELSE asarray_shape(x.nested)
    IN  Len(shape) = 2

\* the input is a nested sequence, or the array built from it
InitMtx ==
    /\ pc = "ready"
    /\ \E k \in 0..MaxOuter : \E x \in [1..k -> Items] :
          \/ arr = [form |-> "list", nested |-> x]
          \/ arr = [form |-> "ndarray", nested |-> x, shape |-> asarray_shape(x)]
    /\ axis = "None"
    /\ op = "none"
    /\ result = None
    /\ heap = <<>>
    /\ ret = 0
    /\ writes = 0

CallIsMtx ==
    /\ pc = "ready"
    /\ pc' = "done"
    /\ op' = "is_mtx"
    /\ result' = is_mtx(arr)
    /\ UNCHANGED <<arr, axis, heap, ret, writes>>

NextMtx == CallIsMtx

SpecMtx == InitMtx /\ [][NextMtx]_vars

(***************************************************************************)
(* C9: is_mtx answers true iff the input has at least one row, every item  *)
(* is a row and all rows have the same length; the answer is the same for  *)
(* the nested sequence and for the array built from it.                    *)
(***************************************************************************)
IsMtxIffRectangular ==
    (pc = "done" /\ op = "is_mtx") =>
        LET x == arr.nested
        IN  result = (/\ Len(x) >= 1
                      /\ \A i \in 1..Len(x) : x[i].row
                      /\ \A i, j \in 1..Len(x) :
                            Len(x[i].items) = Len(x[j].items))

\* two rows of uneven length are rejected
IsMtxWitness ==
    /\ pc = "done"
    /\ op = "is_mtx"
    /\ arr.form = "list"
    /\ Len(arr.nested) = 2
    /\ arr.nested[1] = Row(<<1, 2>>)
    /\ arr.nested[2] = Row(<<1>>)
    /\ result = FALSE

(***************************************************************************)
(* Vocabulary of the properties                                            *)
(***************************************************************************)
IsMatrix(a) == Len(a.shape) = 2

\* the operator `name` has been applied to a two-dimensional input
Done(name) == pc = "done" /\ op = name /\ IsMatrix(arr)

\* the axis slices of an array: the whole array, its columns or its rows
AxisSlices(shape, ax) ==
    IF ax = "None" \/ Len(shape) = 1 THEN {Indices(shape)}
    ELSE IF ax = "0"
         THEN {{<<i, j>> : i \in 1..shape[1]} : j \in 1..shape[2]}
         ELSE {{<<i, j>> : j \in 1..shape[2]} : i \in 1..shape[1]}

SameShape == ~IsRaise(result) /\ result.shape = arr.shape

Abs(x) == IF x < 0 THEN 0 - x ELSE x

RECURSIVE GCD(_, _)
GCD(a, b) == IF b = 0 THEN a ELSE GCD(b, a % b)

\* fractions <<n, d>> with d > 0, in lowest terms
RatAdd(p, q) ==
    LET n == p[1] * q[2] + q[1] * p[2]
        d == p[2] * q[2]
        g == GCD(Abs(n), d)
    IN  <<n \div g, d \div g>>

RECURSIVE RatSum(_, _)
RatSum(f, S) ==
    IF S = {} THEN <<0, 1>>
    ELSE LET u == CHOOSE u \in S : TRUE
         IN  RatAdd(f[u], RatSum(f, S \ {u}))

IsFinite(e) == e.k = "fin"

\* the value of a finite quotient that is not over a square root
Ratio(e) == <<e.n, e.d>>

\* the square of a finite quotient
Square(e) == <<e.n * e.n, IF e.sq THEN e.d ELSE e.d * e.d>>

\* the finite quotient e equals x / s, for integers x and s # 0
IsQuotient(e, x, s) == IsFinite(e) /\ ~e.sq /\ e.n * s = x * e.d

IsOne(e) == IsFinite(e) /\ ~e.sq /\ e.n = e.d

AtMostOne(e) ==
    \/ e.k = "-inf"
    \/ IsFinite(e) /\ ~e.sq /\ e.n <= e.d
    \/ IsFinite(e) /\ e.sq /\ (e.n <= 0 \/ e.n * e.n <= e.d)

SliceMax(a, S) == CHOOSE v \in {a.at[u] : u \in S} : \A u \in S : a.at[u] <= v

SliceMin(a, S) == CHOOSE v \in {a.at[u] : u \in S} : \A u \in S : v <= a.at[u]

RECURSIVE SliceSum(_, _)
SliceSum(a, S) ==
    IF S = {} THEN 0
    ELSE LET u == CHOOSE u \in S : TRUE
         IN  a.at[u] + SliceSum(a, S \ {u})

RECURSIVE SliceSumSq(_, _)
SliceSumSq(a, S) ==
    IF S = {} THEN 0
    ELSE LET u == CHOOSE u \in S : TRUE
         IN  a.at[u] * a.at[u] + SliceSumSq(a, S \ {u})

MaxAtMostOneEverywhere ==
    (/\ Done("max")
     /\ \A S \in AxisSlices(arr.shape, axis) : SliceMax(arr, S) # 0) =>
        /\ SameShape
        /\ \A u \in Indices(arr.shape) : AtMostOne(result.at[u])
        /\ \A S \in AxisSlices(arr.shape, axis) :
              \E u \in S : IsOne(result.at[u])

(***************************************************************************)
(* C2 amended: in every axis slice whose maximum is positive every element *)
(* of max(M, a) is at most 1, and in every axis slice whose maximum is     *)
(* non-zero at least one element equals exactly 1; each element is its     *)
(* input value divided by the maximum of its own slice.                    *)
(***************************************************************************)
MaxAtMostOneWherePositive ==
    Done("max") =>
        /\ SameShape
        /\ \A S \in AxisSlices(arr.shape, axis) :
              LET top == SliceMax(arr, S)
              IN  /\ top > 0 => \A u \in S : AtMostOne(result.at[u])
                  /\ top # 0 =>
                        /\ \E u \in S : IsOne(result.at[u])
                        /\ \A u \in S : IsQuotient(result.at[u], arr.at[u], top)

\* max by columns with a column of positive maximum holding a negative
\* entry and a column whose maximum is negative
MaxWitness ==
    /\ Done("max")
    /\ axis = "0"
    /\ arr.shape = <<3, 2>>
    /\ SliceMax(arr, {<<i, 1>> : i \in 1..3}) = 1
    /\ SliceMin(arr, {<<i, 1>> : i \in 1..3}) = 0 - 2
    /\ SliceMax(arr, {<<i, 2>> : i \in 1..3}) = 0 - 1

(***************************************************************************)
(* C6: push_negatives subtracts from every element of a slice the slice's  *)
(* minimum when that minimum is negative, so that the new minimum of the   *)
(* slice is 0, leaves every other slice as it was, and so returns no       *)
(* negative element.                                                       *)
(***************************************************************************)
PushNegativesShiftsNegativeSlices ==
    Done("push_negatives") =>
        /\ SameShape
        /\ \A S \in AxisSlices(arr.shape, axis) :
              LET low == SliceMin(arr, S)
              IN  IF low < 0
                  THEN /\ \A u \in S : result.at[u] = arr.at[u] - low
                       /\ SliceMin(result, S) = 0
                  ELSE \A u \in S : result.at[u] = arr.at[u]
        /\ \A u \in Indices(arr.shape) : result.at[u] >= 0

\* push_negatives by rows: one row with a negative minimum is shifted, one
\* row with a positive minimum is kept
PushNegativesWitness ==
    /\ Done("push_negatives")
    /\ axis = "1"
    /\ arr.shape = <<2, 3>>
    /\ SliceMin(arr, {<<1, j>> : j \in 1..3}) = 0 - 2
    /\ SliceMin(arr, {<<2, j>> : j \in 1..3}) = 1
    /\ result.at[<<1, 3>>] = 3
    /\ result.at[<<2, 3>>] = 1

(***************************************************************************)
(* C1: for every matrix and axis whose slices all have a non-zero          *)
(* Euclidean norm, each element of vector(M, a) is its input value divided *)
(* by the norm of its own slice, so the squares of the elements of every   *)
(* axis slice of the result sum to 1.                                      *)
(***************************************************************************)
VectorSquaresSumToOne ==
    (/\ Done("vector")
     /\ \A S \in AxisSlices(arr.shape, axis) : SliceSumSq(arr, S) # 0) =>
        /\ SameShape
        /\ \A S \in AxisSlices(arr.shape, axis) :
              /\ \A u \in S : /\ IsFinite(result.at[u])
                              /\ result.at[u].sq
                              /\ result.at[u].n = arr.at[u]
                              /\ result.at[u].d = SliceSumSq(arr, S)
              /\ RatSum([u \in S |-> Square(result.at[u])], S) = <<1, 1>>

(***************************************************************************)
(* C3: add1to0(M, a) is M with exactly the elements of the axis slices     *)
(* that contain a 0 incremented by 1 (the whole array being the one slice  *)
(* when the axis is None or the input one-dimensional); an input without a *)
(* 0 is returned unchanged.                                                *)
(***************************************************************************)
Add1to0IncrementsZeroSlices ==
    (pc = "done" /\ op = "add1to0") =>
        /\ SameShape
        /\ \A S \in AxisSlices(arr.shape, axis) :
              \A u \in S :
                 result.at[u] =
                    arr.at[u] + (IF \E w \in S : arr.at[w] = 0 THEN 1 ELSE 0)

(***************************************************************************)
(* C4: each of the five operators, on every m-by-n matrix and every axis,  *)
(* completes with a result of shape m-by-n.                                *)
(***************************************************************************)
OperatorsPreserveShape ==
    (pc = "done" /\ IsMatrix(arr)) => SameShape

\* the denominator sum, max and vector divide a slice by (for vector: its square)
Denominator(name, a, S) ==
    IF name = "sum" THEN SliceSum(a, S)
    ELSE IF name = "max" THEN SliceMax(a, S)
    ELSE SliceSumSq(a, S)

SpecialValue(x) ==
    IF x = 0 THEN "nan" ELSE IF x > 0 THEN "inf" ELSE "-inf"

(***************************************************************************)
(* C7: when an axis slice has a zero denominator (sum 0 under sum, maximum *)
(* 0 under max, norm 0 under vector) the operator does not raise; the      *)
(* elements of that slice are NaN (0/0) or +/-Infinity (non-zero/0) and    *)
(* the slices with a non-zero denominator hold their ordinary ratios.      *)
(***************************************************************************)
ZeroDenominatorGivesSpecialValues ==
    (/\ pc = "done"
     /\ op \in {"sum", "max", "vector"}
     /\ IsMatrix(arr)
     /\ \E S \in AxisSlices(arr.shape, axis) : Denominator(op, arr, S) = 0) =>
        /\ SameShape
        /\ \A S \in AxisSlices(arr.shape, axis) :
              LET den == Denominator(op, arr, S)
              IN  \A u \in S :
                     IF den = 0
                     THEN result.at[u].k = SpecialValue(arr.at[u])
                     ELSE IF op = "vector"
                          THEN /\ IsFinite(result.at[u])
                               /\ result.at[u].sq
                               /\ result.at[u].n = arr.at[u]
                               /\ result.at[u].d = den
                          ELSE IsQuotient(result.at[u], arr.at[u], den)

====
